---- MODULE Spec2Model ----
(***************************************************************************)
(* Model of scraper.py: the URL admission filter is_valid, the link        *)
(* extractor / stats collector extract_next_links, save_stats and scraper. *)
(*                                                                         *)
(* Python strings are modelled as sequences of one-character strings, so   *)
(* that lower(), endswith(), split(), re.sub(), urlparse(), urldefrag()    *)
(* and urljoin() are computed character by character as the library does.  *)
(***************************************************************************)
EXTENDS Integers, Sequences, FiniteSets, TLC

VARIABLES
    path_pattern_counts,  \* scraper.py:54  defaultdict(int): pattern -> count
    unique_pages,         \* scraper.py:14  set of defragmented page URLs
    word_counts,          \* scraper.py:15  defaultdict(int), in insertion order
    longest_page,         \* scraper.py:16  (url, word_count)
    subdomain_pages,      \* scraper.py:17  defaultdict(set): netloc -> URLs
    stats_file,           \* crawl_stats.json: <<>> before a write, then <<stats>>
    call,                 \* the last call made: [fn, url, resp]
    ret,                  \* what the last call returned ("raised" if it raised)
    exc,                  \* the exception the last call propagated, or "none"
    ret_line,             \* source line of the return statement the last call left by
    hist,                 \* bookkeeping about the calls made so far
    workers               \* concurrent callers of is_valid: pc and locals

vars == <<path_pattern_counts, unique_pages, word_counts, longest_page,
          subdomain_pages, stats_file, call, ret, exc, ret_line, hist, workers>>

-----------------------------------------------------------------------------
(* Bounds of the model                                                     *)

\* is_valid calls on the numbered URL family http://cs.uci.edu/a/<n>
MaxFamilyCalls == 102
\* is_valid calls on the other URLs of ValidationURLs
MaxOtherCalls == 2

-----------------------------------------------------------------------------
(* Python str operations                                                   *)

LOWERCASE == <<"a","b","c","d","e","f","g","h","i","j","k","l","m","n","o","p","q","r","s","t","u","v","w","x","y","z">>
UPPERCASE == <<"A","B","C","D","E","F","G","H","I","J","K","L","M","N","O","P","Q","R","S","T","U","V","W","X","Y","Z">>
DIGITS == <<"0","1","2","3","4","5","6","7","8","9">>

Range(s) == {s[i] : i \in 1..Len(s)}

isalpha(c) == c \in Range(LOWERCASE) \cup Range(UPPERCASE)
isdigit(c) == c \in Range(DIGITS)

\* a function on 1..n as a sequence
AsSeq(f, n) == SubSeq(f, 1, n)

\* str.lower()
lower(s) ==
    AsSeq([i \in 1..Len(s) |->
              IF s[i] \in Range(UPPERCASE)
              THEN LOWERCASE[CHOOSE k \in 1..Len(UPPERCASE) : UPPERCASE[k] = s[i]]
              ELSE s[i]],
          Len(s))

\* s[a:] with a 1-based
From(s, a) == SubSeq(s, a, Len(s))

\* str.find(sub) for a one-character sub, from 1-based position start;
\* 0 when absent (Python's -1)
find_from(s, c, start) ==
    IF \E i \in start..Len(s) : s[i] = c
    THEN CHOOSE i \in start..Len(s) : s[i] = c /\ \A j \in start..(i-1) : s[j] # c
    ELSE 0

\* str.rfind(c), 0 when absent
rfind(s, c) ==
    IF \E i \in 1..Len(s) : s[i] = c
    THEN CHOOSE i \in 1..Len(s) : s[i] = c /\ \A j \in (i+1)..Len(s) : s[j] # c
    ELSE 0

startswith(s, p) == Len(p) <= Len(s) /\ SubSeq(s, 1, Len(p)) = p
endswith(s, p) == Len(p) <= Len(s) /\ SubSeq(s, Len(s) - Len(p) + 1, Len(s)) = p

\* position (0-based offset) sets at which p occurs in s
contains(s, p) ==
    \E i \in 0..(Len(s) - Len(p)) : SubSeq(s, i + 1, i + Len(p)) = p

\* the k-th smallest member of a set of numbers
nth(S, k) == CHOOSE x \in S : Cardinality({y \in S : y < x}) = k - 1

\* str.split(c): the pieces between occurrences of c, empty pieces kept;
\* seps are the places of c in s
split_at(s, seps) ==
    AsSeq([k \in 1..(Cardinality(seps) + 1) |->
              SubSeq(s, IF k = 1 THEN 1 ELSE nth(seps, k - 1) + 1,
                        IF k = Cardinality(seps) + 1 THEN Len(s) ELSE nth(seps, k) - 1)],
          Cardinality(seps) + 1)

split(s, c) == split_at(s, {i \in 1..Len(s) : s[i] = c})

\* c.join(parts)
RECURSIVE join(_, _)
join(parts, c) ==
    IF Len(parts) = 0 THEN <<>>
    ELSE IF Len(parts) = 1 THEN parts[1]
    ELSE parts[1] \o <<c>> \o join(Tail(parts), c)

\* str.rstrip(c): every trailing c removed
RECURSIVE rstrip(_, _)
rstrip(s, c) ==
    IF Len(s) > 0 /\ s[Len(s)] = c THEN rstrip(SubSeq(s, 1, Len(s) - 1), c) ELSE s

\* list.count(x)
count(list, x) == Cardinality({i \in 1..Len(list) : list[i] = x})

\* [p for p in list if p]
nonempty(list) == SelectSeq(list, LAMBDA p : p # <<>>)

\* str(n) for n >= 0
RECURSIVE str(_)
str(n) == IF n < 10 THEN <<DIGITS[n + 1]>> ELSE str(n \div 10) \o <<DIGITS[(n % 10) + 1]>>

\* s * n
repeat(s, n) == AsSeq([i \in 1..(n * Len(s)) |-> s[((i - 1) % Len(s)) + 1]], n * Len(s))

\* re.sub(r'\d+', '{N}', s): every maximal run of digits becomes {N}.  The
\* character at i turns into the three of {N} if it is a digit that begins a
\* run, into nothing if it is any other digit, into itself otherwise;
\* written(s, i) is how many characters those before i turn into, and
\* source_of(s, j) the character of s that the j-th of the result comes from.
begins_run(s, i) == isdigit(s[i]) /\ (i = 1 \/ ~isdigit(s[i - 1]))

written(s, i) ==
    Cardinality({k \in 1..(i - 1) : ~isdigit(s[k])})
    + 3 * Cardinality({k \in 1..(i - 1) : begins_run(s, k)})

source_of(s, j) ==
    CHOOSE i \in 1..Len(s) :
        /\ written(s, i) < j
        /\ j <= written(s, i)
                + (IF ~isdigit(s[i]) THEN 1 ELSE IF begins_run(s, i) THEN 3 ELSE 0)

sub_digits(s) ==
    AsSeq([j \in 1..written(s, Len(s) + 1) |->
              IF isdigit(s[source_of(s, j)])
              THEN <<"{","N","}">>[j - written(s, source_of(s, j))]
              ELSE s[source_of(s, j)]],
          written(s, Len(s) + 1))

-----------------------------------------------------------------------------
(* urllib.parse                                                            *)

scheme_chars == Range(LOWERCASE) \cup Range(UPPERCASE) \cup Range(DIGITS) \cup {"+", "-", "."}
uses_params == {<<>>, <<"f","t","p">>, <<"h","t","t","p">>, <<"h","t","t","p","s">>}
uses_relative == {<<>>, <<"f","t","p">>, <<"h","t","t","p">>, <<"h","t","t","p","s">>}
uses_netloc == {<<>>, <<"f","t","p">>, <<"h","t","t","p">>, <<"h","t","t","p","s">>}

\* str.partition(c): what comes before and after the first c
partition(s, c) ==
    IF find_from(s, c, 1) > 0
    THEN [head |-> SubSeq(s, 1, find_from(s, c, 1) - 1),
          tail |-> From(s, find_from(s, c, 1) + 1)]
    ELSE [head |-> s, tail |-> <<>>]

Min(S) == CHOOSE i \in S : \A j \in S : i <= j

\* _splitnetloc: the netloc ends before the first '/', '?' or '#' at or
\* after start, or with the string
netloc_end(s, start) ==
    Min(({find_from(s, c, start) : c \in {"/", "?", "#"}} \ {0}) \cup {Len(s) + 1})

\* urlsplit, the scheme: url[:i] when i, the place of the first ':', is not
\* the first character and only scheme characters come before it
take_scheme(url, default, i) ==
    IF i > 1 /\ isalpha(url[1]) /\ \A k \in 1..(i - 1) : url[k] \in scheme_chars
    THEN [scheme |-> lower(SubSeq(url, 1, i - 1)), rest |-> From(url, i + 1)]
    ELSE [scheme |-> default, rest |-> url]

\* urlsplit, the netloc: what follows a leading '//' up to position e
take_netloc(rest, e) ==
    IF startswith(rest, <<"/","/">>)
    THEN [netloc |-> SubSeq(rest, 3, e - 1), rest |-> From(rest, e)]
    ELSE [netloc |-> <<>>, rest |-> rest]

\* urlsplit raises ValueError("Invalid IPv6 URL") for a netloc with one of
\* '[' and ']' and not the other
split_result(s, n, f, q) ==
    [exc |-> IF ("[" \in Range(n.netloc)) # ("]" \in Range(n.netloc))
             THEN "ValueError" ELSE "none",
     scheme |-> s.scheme, netloc |-> n.netloc, path |-> q.head,
     params |-> <<>>, query |-> q.tail, fragment |-> f.tail]

split_fragment(s, n) ==
    split_result(s, n, partition(n.rest, "#"), partition(partition(n.rest, "#").head, "?"))
split_netloc(s) == split_fragment(s, take_netloc(s.rest, netloc_end(s.rest, 3)))

\* urlsplit(url, scheme=default): the scheme, the netloc, then the rest cut
\* at the first '#' and what is before it at the first '?'.  exc is
\* "ValueError" when the parse raises, "none" otherwise.
urlsplit(url, default) == split_netloc(take_scheme(url, default, find_from(url, ":", 1)))

\* _splitparams, semi being the place of the first ';' of the last path
\* segment
split_params(s, semi) ==
    IF s.exc = "none" /\ s.scheme \in uses_params /\ semi > 0
    THEN [s EXCEPT !.path = SubSeq(s.path, 1, semi - 1),
                   !.params = From(s.path, semi + 1)]
    ELSE s

with_params(s) ==
    split_params(s, find_from(s.path, ";",
                              IF rfind(s.path, "/") = 0 THEN 1 ELSE rfind(s.path, "/")))

\* urlparse(url, scheme=default)
urlparse(url, default) == with_params(urlsplit(url, default))

\* urlunparse((scheme, netloc, path, params, query, fragment)), step by step
unparse_params(p) ==
    IF p.params # <<>> THEN p.path \o <<";">> \o p.params ELSE p.path

unparse_netloc(p, u) ==
    IF p.netloc # <<>>
       \/ (p.scheme # <<>> /\ p.scheme \in uses_netloc /\ ~startswith(u, <<"/","/">>))
    THEN <<"/","/">> \o p.netloc
         \o (IF u # <<>> /\ u[1] # "/" THEN <<"/">> ELSE <<>>) \o u
    ELSE u

urlunparse(p) ==
    (IF p.scheme # <<>> THEN p.scheme \o <<":">> ELSE <<>>)
    \o unparse_netloc(p, unparse_params(p))
    \o (IF p.query # <<>> THEN <<"?">> \o p.query ELSE <<>>)
    \o (IF p.fragment # <<>> THEN <<"#">> \o p.fragment ELSE <<>>)

\* urldefrag(url): a url without '#' is returned as it is; one with '#' is
\* parsed and put together again without its fragment.  exc is "ValueError"
\* when the parse raises; url is then meaningless.
defrag_parsed(p) ==
    [exc |-> p.exc,
     url |-> IF p.exc = "none" THEN urlunparse([p EXCEPT !.fragment = <<>>]) ELSE <<>>]

urldefrag(url) ==
    IF "#" \in Range(url) THEN defrag_parsed(urlparse(url, <<>>))
    ELSE [exc |-> "none", url |-> url]

-----------------------------------------------------------------------------
(* Constants of scraper.py                                                 *)

MAX_PATTERN_COUNT == 100
MAX_PATH_DEPTH == 15
MAX_QUERY_PARAMS == 5
MIN_PARTS_FOR_REPEAT == 4
REPEAT_LIMIT == 3
MAX_URL_LENGTH == 300
MIN_WORDS == 25
SAVE_EVERY == 100
MAX_CONTENT_BYTES == 10485760

\* ics.uci.edu, cs.uci.edu, informatics.uci.edu and stat.uci.edu
ALLOWED_DOMAINS ==
    {<<"i","c","s",".","u","c","i",".","e","d","u">>,
     <<"c","s",".","u","c","i",".","e","d","u">>,
     <<"i","n","f","o","r","m","a","t","i","c","s",".","u","c","i",".","e","d","u">>,
     <<"s","t","a","t",".","u","c","i",".","e","d","u">>}

EXTENSIONS ==
  {
    <<"c","s","s">>, <<"j","s">>, <<"b","m","p">>, <<"g","i","f">>, <<"j","p","g">>,
    <<"j","p","e","g">>, <<"i","c","o">>, <<"p","n","g">>, <<"t","i","f">>, <<"t","i","f","f">>,
    <<"m","i","d">>, <<"m","p","2">>, <<"m","p","3">>, <<"m","p","4">>, <<"w","a","v">>,
    <<"a","v","i">>, <<"m","o","v">>, <<"m","p","e","g">>, <<"r","a","m">>, <<"m","4","v">>,
    <<"m","k","v">>, <<"o","g","g">>, <<"o","g","v">>, <<"p","d","f">>, <<"p","s">>,
    <<"e","p","s">>, <<"t","e","x">>, <<"p","p","t">>, <<"p","p","t","x">>, <<"d","o","c">>,
    <<"d","o","c","x">>, <<"x","l","s">>, <<"x","l","s","x">>, <<"n","a","m","e","s">>,
    <<"d","a","t","a">>, <<"d","a","t">>, <<"e","x","e">>, <<"b","z","2">>, <<"t","a","r">>,
    <<"m","s","i">>, <<"b","i","n">>, <<"7","z">>, <<"p","s","d">>, <<"d","m","g">>,
    <<"i","s","o">>, <<"e","p","u","b">>, <<"d","l","l">>, <<"c","n","f">>, <<"t","g","z">>,
    <<"s","h","a","1">>, <<"t","h","m","x">>, <<"m","s","o">>, <<"a","r","f","f">>, <<"r","t","f">>,
    <<"j","a","r">>, <<"c","s","v">>, <<"r","m">>, <<"s","m","i","l">>, <<"w","m","v">>,
    <<"s","w","f">>, <<"w","m","a">>, <<"z","i","p">>, <<"r","a","r">>, <<"g","z">>,
    <<"i","m","g">>, <<"s","q","l">>, <<"d","b">>, <<"b","a","k">>, <<"c","f","g">>,
    <<"c","o","n","f">>, <<"i","n","i">>, <<"l","o","g">>, <<"x","m","l">>, <<"j","s","o","n">>,
    <<"r","s","s">>, <<"a","t","o","m">>, <<"s","v","g">>, <<"w","o","f","f">>,
    <<"w","o","f","f","2">>, <<"t","t","f">>, <<"e","o","t">>, <<"a","p","k">>, <<"w","a","r">>,
    <<"m","p","g">>, <<"p","h","p">>, <<"a","s","p">>, <<"j","s","p">>, <<"c","g","i">>,
    <<"p","y">>, <<"p","l">>, <<"s","h">>, <<"b","a","t">>, <<"r">>, <<"m">>, <<"c","c">>, <<"c">>,
    <<"h">>, <<"c","p","p">>, <<"j","a","v","a">>, <<"c","l","a","s","s">>, <<"o">>
  }

TRAP_SUBSTRINGS ==
  {
    <<"/","c","a","l","e","n","d","a","r","/">>, <<"/","e","v","e","n","t","s","/">>,
    <<"?","i","c","a","l","=">>, <<"?","s","h","a","r","e","=">>,
    <<"?","r","e","p","l","y","t","o","c","o","m","=">>, <<"/","w","p","-","j","s","o","n","/">>,
    <<"/","w","p","-","a","d","m","i","n","/">>, <<"/","w","p","-","l","o","g","i","n">>,
    <<"/","f","e","e","d","/">>, <<"/","t","a","g","/">>,
    <<"/","a","t","t","a","c","h","m","e","n","t","/">>,
    <<"a","c","t","i","o","n","=","l","o","g","i","n">>,
    <<"a","c","t","i","o","n","=","d","o","w","n","l","o","a","d">>,
    <<"d","o","=","h","i","e","r","a","r","c","h","y","v","i","e","w">>,
    <<"d","o","=","b","a","c","k","l","i","n","k">>,
    <<"d","o","=","r","e","v","i","s","i","o","n","s">>, <<"d","o","=","m","e","d","i","a">>,
    <<"d","o","=","i","n","d","e","x">>, <<"d","o","=","r","e","c","e","n","t">>,
    <<"d","o","=","d","i","f","f">>, <<"d","o","=","e","d","i","t">>,
    <<"d","o","=","e","x","p","o","r","t">>, <<"v","e","r","s","i","o","n","=">>,
    <<"f","o","r","m","a","t","=">>,
    <<"t","r","i","b","e","-","b","a","r","-","d","a","t","e","=">>,
    <<"i","c","s","_","f","i","l","e","=">>, <<"/","p","d","f","/">>,
    <<"/","s","l","i","d","e","_","s","h","o","w","/">>, <<"g","a","l","l","e","r","y">>,
    <<"l","o","g","i","n">>, <<"m","a","i","l","t","o",":">>, <<"t","e","l",":">>,
    <<"j","a","v","a","s","c","r","i","p","t",":">>
  }

\* the lower-cased url matches one of TRAP_PATTERNS (re.search): a plain
\* substring, r'/page/\d+' or r'\.pdf$'
matches_trap(full_url) ==
    \/ \E t \in TRAP_SUBSTRINGS : contains(full_url, t)
    \/ \E i \in 0..(Len(full_url) - 7) :
          /\ SubSeq(full_url, i + 1, i + 6) = <<"/","p","a","g","e","/">>
          /\ isdigit(full_url[i + 7])
    \/ endswith(full_url, <<".","p","d","f">>)

\* the lower-cased path ends in "." and one of the extensions
has_blocked_extension(path) ==
    \E e \in EXTENSIONS : endswith(path, <<".">> \o e)

\* netloc is one of the four domains or ends in "." and one of them
domain_allowed(netloc) ==
    \E d \in ALLOWED_DOMAINS : netloc = d \/ endswith(netloc, <<".">> \o d)

\* some segment other than the last occurs REPEAT_LIMIT times or more, looked
\* for only in paths of MIN_PARTS_FOR_REPEAT segments or more
repeats_segment(path_parts) ==
    /\ Len(path_parts) >= MIN_PARTS_FOR_REPEAT
    /\ \E i \in 1..(Len(path_parts) - 1) :
          count(path_parts, path_parts[i]) >= REPEAT_LIMIT

\* line 356 as it would be with >= for >
exceeds_ceiling_at(n) == n >= MAX_PATTERN_COUNT

\* line 356
exceeds_ceiling(n) == n > MAX_PATTERN_COUNT

\* lines 96-102: the netloc and the path with every run of digits as {N}
get_path_pattern(url) ==
    urlparse(url, <<>>).netloc \o sub_digits(urlparse(url, <<>>).path)

\* defaultdict(int) read and increment
Count(counts, k) == IF k \in DOMAIN counts THEN counts[k] ELSE 0
Increment(counts, k) ==
    [x \in DOMAIN counts \cup {k} |-> IF x = k THEN Count(counts, k) + 1 ELSE counts[x]]

path_parts_of(parsed) == nonempty(split(parsed.path, "/"))

\* The checks of is_valid that come before the frequency check, in the
\* order of the code, on parsed = urlparse(url): the line of the return
\* statement that rejects the url, 266 when urlparse raises, 0 when every
\* check passes.
checks_before_pattern(url, parsed, path_parts) ==
    IF parsed.exc # "none" THEN 266
    ELSE IF parsed.scheme \notin {<<"h","t","t","p">>, <<"h","t","t","p","s">>} THEN 272
    ELSE IF ~domain_allowed(lower(parsed.netloc)) THEN 297
    ELSE IF has_blocked_extension(lower(parsed.path)) THEN 315
    ELSE IF matches_trap(lower(url)) THEN 323
    ELSE IF Len(path_parts) > MAX_PATH_DEPTH THEN 330
    ELSE IF parsed.query # <<>> /\ Len(split(parsed.query, "&")) > MAX_QUERY_PARAMS THEN 338
    ELSE IF repeats_segment(path_parts) THEN 349
    ELSE 0

\* What is_valid computes from the url alone: parsed = urlparse(url) of
\* line 266, the outcome of the checks before the frequency check, the
\* PathPattern of line 354 and the length test of line 362.
url_checks_of(url, parsed) ==
    [parsed |-> parsed,
     pre |-> checks_before_pattern(url, parsed, path_parts_of(parsed)),
     pattern |-> IF parsed.exc = "none" THEN get_path_pattern(url) ELSE <<>>,
     too_long |-> Len(url) > MAX_URL_LENGTH]

url_checks(url) == url_checks_of(url, urlparse(url, <<>>))

\* is_valid as it would be with line 355 before every check: the counter
\* goes up whatever the outcome
is_valid_counting_first(c, counts, after) ==
    IF c.pre = 266
    THEN IF c.parsed.exc = "TypeError"
         THEN [ret |-> FALSE, exc |-> "none", line |-> 369, counts |-> counts]
         ELSE [ret |-> "raised", exc |-> c.parsed.exc, line |-> 266, counts |-> counts]
    ELSE IF c.pre # 0 THEN [ret |-> FALSE, exc |-> "none", line |-> c.pre, counts |-> after]
    ELSE IF exceeds_ceiling(after[c.pattern])
         THEN [ret |-> FALSE, exc |-> "none", line |-> 357, counts |-> after]
    ELSE IF c.too_long THEN [ret |-> FALSE, exc |-> "none", line |-> 363, counts |-> after]
    ELSE [ret |-> TRUE, exc |-> "none", line |-> 365, counts |-> after]

\* is_valid run against the counters `counts`, given url_checks(url): the
\* value returned, the exception propagated (only TypeError is caught, at
\* line 367), the line left by and the counters afterwards.
is_valid_after(c, counts, after) ==
        IF c.pre = 266
        THEN IF c.parsed.exc = "TypeError"
             THEN [ret |-> FALSE, exc |-> "none", line |-> 369, counts |-> counts]
             ELSE [ret |-> "raised", exc |-> c.parsed.exc, line |-> 266,
                   counts |-> counts]
        ELSE IF c.pre # 0
        THEN [ret |-> FALSE, exc |-> "none", line |-> c.pre, counts |-> counts]
        ELSE IF exceeds_ceiling(after[c.pattern])
        THEN [ret |-> FALSE, exc |-> "none", line |-> 357, counts |-> after]
        ELSE IF c.too_long
        THEN [ret |-> FALSE, exc |-> "none", line |-> 363, counts |-> after]
        ELSE [ret |-> TRUE, exc |-> "none", line |-> 365, counts |-> after]

is_valid_on(c, counts) == is_valid_after(c, counts, Increment(counts, c.pattern))

is_valid(url, counts) == is_valid_on(url_checks(url), counts)

-----------------------------------------------------------------------------
(* The URLs is_valid is called with                                        *)

\* http://cs.uci.edu
HTTP_CS == <<"h","t","t","p",":","/","/","c","s",".","u","c","i",".","e","d","u">>

\* the n-th URL of a numbered family: http://cs.uci.edu/a/<n>
FamilyUrl(n) == HTTP_CS \o <<"/","a","/">> \o str(n)

\* ftp://cs.uci.edu/a/1, https://vision.ics.uci.edu/a/1 and a URL of 304 characters
U_ftp == <<"f","t","p",":","/","/">> \o <<"c","s",".","u","c","i",".","e","d","u">> \o <<"/","a","/","1">>
U_sub == <<"h","t","t","p","s">> \o <<":","/","/","v","i","s","i","o","n",".">> \o <<"i","c","s",".","u","c","i",".","e","d","u">> \o <<"/","a","/","1">>
U_long == HTTP_CS \o <<"/","a","/","1","?","q","=">> \o repeat(<<"x">>, 280)

\* URLs that each take one way through is_valid, in this order:
\*   ftp://cs.uci.edu/a/1                   http://www.math.uci.edu/a/1
\*   http://xics.uci.edu/a/1                http://cs.uci.edu:8080/a/1
\*   http://cs.uci.edu@evil.com/a/1         HTTPS://WWW.ICS.UCI.EDU/a/1
\*   https://vision.ics.uci.edu/a/1         http://cs.uci.edu/a/1.PDF
\*   http://cs.uci.edu/a/1?version=2        http://cs.uci.edu/page/2
\*   http://cs.uci.edu/s/s/.../t/t (16 segments)
\*   http://cs.uci.edu/a/1?a&b&c&d&e&f      http://cs.uci.edu/a/1?a&b&c&d&e
\*   http://cs.uci.edu/a/b/a/b/a/b          http://cs.uci.edu/a/a/a
\*   http://cs.uci.edu/b/c/a/a/a            http://cs.uci.edu/a/A/a/b
\*   http://cs.uci.edu/a/1?q=xxx...x (304 characters)
\*   http://[cs.uci.edu/a/1, which urlparse raises ValueError on
\*   http://evil.com:.ics.uci.edu/a/1, whose netloc ends in .ics.uci.edu
\*   and whose host is evil.com
VALIDATION_URLS ==
    <<U_ftp,
      <<"h","t","t","p">> \o <<":","/","/","w","w","w",".","m","a","t","h",".","u","c","i",".","e","d","u","/","a","/","1">>,
      <<"h","t","t","p">> \o <<":","/","/","x","i","c","s",".","u","c","i",".","e","d","u","/","a","/","1">>,
      HTTP_CS \o <<":","8","0","8","0","/","a","/","1">>,
      HTTP_CS \o <<"@","e","v","i","l",".","c","o","m","/","a","/","1">>,
      <<"H","T","T","P","S",":","/","/","W","W","W",".","I","C","S",".","U","C","I",".","E","D","U","/","a","/","1">>,
      U_sub,
      HTTP_CS \o <<"/","a","/","1",".","P","D","F">>,
      HTTP_CS \o <<"/","a","/","1","?","v","e","r","s","i","o","n","=","2">>,
      HTTP_CS \o <<"/","p","a","g","e","/","2">>,
      HTTP_CS \o repeat(<<"/","s">>, 8) \o repeat(<<"/","t">>, 8),
      HTTP_CS \o <<"/","a","/","1","?","a","&","b","&","c","&","d","&","e","&","f">>,
      HTTP_CS \o <<"/","a","/","1","?","a","&","b","&","c","&","d","&","e">>,
      HTTP_CS \o <<"/","a","/","b","/","a","/","b","/","a","/","b">>,
      HTTP_CS \o <<"/","a","/","a","/","a">>,
      HTTP_CS \o <<"/","b","/","c","/","a","/","a","/","a">>,
      HTTP_CS \o <<"/","a","/","A","/","a","/","b">>,
      U_long,
      <<"h","t","t","p">> \o <<":","/","/","[">> \o <<"c","s",".","u","c","i",".","e","d","u">> \o <<"/","a","/","1">>,
      <<"h","t","t","p",":","/","/","e","v","i","l",".","c","o","m",":",".","i","c","s",".","u","c","i",".","e","d","u","/","a","/","1">>>>

\* url_checks of every URL above and of the family, computed once
ValidationChecks ==
    AsSeq([i \in 1..Len(VALIDATION_URLS) |-> url_checks(VALIDATION_URLS[i])],
          Len(VALIDATION_URLS))

FamilyChecks ==
    AsSeq([n \in 1..MaxFamilyCalls |-> url_checks(FamilyUrl(n))], MaxFamilyCalls)

-----------------------------------------------------------------------------
(* Initial state: the module-level globals of scraper.py                   *)

EmptyMap == [k \in {} |-> 0]

\* the four stats aggregates and the stats file
NoStats ==
    [unique_pages |-> {}, word_counts |-> <<>>, longest_page |-> <<<<>>, 0>>,
     subdomain_pages |-> EmptyMap, stats_file |-> <<>>]

\* Bookkeeping about the calls made so far.  For is_valid: calls and reached
\* (see RecordCall), family and other (calls made by each action).  For
\* extract_next_links: extracts, pages and scrapes (calls made by each action),
\* revisits, before (the stats as the last call found them), saved (the last
\* call called save_stats), seen (the page URLs that got to line 207) and
\* seen_before (seen, as the last call found it).
NoHistory ==
    [calls |-> EmptyMap, reached |-> EmptyMap, family |-> 0, other |-> 0,
     extracts |-> 0, pages |-> 0, revisits |-> 0, scrapes |-> 0, before |-> NoStats,
     saved |-> FALSE, seen |-> {}, seen_before |-> {}]

\* threads that call is_valid
NumWorkers == 2

Init ==
    /\ path_pattern_counts = EmptyMap
    /\ unique_pages = {}
    /\ word_counts = <<>>
    /\ longest_page = <<<<>>, 0>>
    /\ subdomain_pages = EmptyMap
    /\ stats_file = <<>>
    /\ call = [fn |-> "none"]
    /\ ret = "none"
    /\ exc = "none"
    /\ ret_line = 0
    /\ hist = NoHistory
    /\ workers = [w \in 1..NumWorkers |->
                     [pc |-> "idle", src |-> <<"none", 0>>, tmp |-> 0, seen |-> 0,
                      ret |-> FALSE, line |-> 0]]

-----------------------------------------------------------------------------
(* Sequential calls of is_valid                                            *)

\* Bookkeeping.  hist.calls counts the is_valid calls per PathPattern,
\* whatever their outcome; hist.reached counts those that got as far as the
\* frequency check, which are the ones that left by line 357, 363 or 365.
REACHED_LINES == {357, 363, 365}

RecordCall(h, c, line) ==
    IF c.parsed.exc # "none" THEN h
    ELSE [h EXCEPT !.calls = Increment(h.calls, c.pattern),
                   !.reached = IF line \in REACHED_LINES
                               THEN Increment(h.reached, c.pattern)
                               ELSE h.reached]

\* is_valid(url), c being url_checks(url) and h the bookkeeping of the
\* action; src tells where url_checks(url) is kept: <<"family", n>> or
\* <<"other", i>>
IsValidCall(url, src, c, h) ==
    \E r \in {is_valid_on(c, path_pattern_counts)} :
    /\ path_pattern_counts' = r.counts
    /\ ret' = r.ret
    /\ exc' = r.exc
    /\ ret_line' = r.line
    /\ call' = [fn |-> "is_valid", url |-> url, src |-> src]
    /\ hist' = RecordCall(h, c, r.line)
    /\ UNCHANGED <<unique_pages, word_counts, longest_page, subdomain_pages, stats_file,
                   workers>>

\* is_valid on the next URL of the family
ValidateFamily ==
    /\ hist.family < MaxFamilyCalls
    /\ IsValidCall(FamilyUrl(hist.family + 1), <<"family", hist.family + 1>>,
                   FamilyChecks[hist.family + 1], [hist EXCEPT !.family = @ + 1])

\* is_valid on one of VALIDATION_URLS
ValidateOther ==
    /\ hist.other < MaxOtherCalls
    /\ \E i \in 1..Len(VALIDATION_URLS) :
          IsValidCall(VALIDATION_URLS[i], <<"other", i>>, ValidationChecks[i],
                      [hist EXCEPT !.other = @ + 1])

NextValid == ValidateFamily \/ ValidateOther

SpecValid == Init /\ [][NextValid]_vars

-----------------------------------------------------------------------------
(* urljoin                                                                 *)

\* what a call that can raise hands back
Ok(url) == [exc |-> "none", url |-> url]
Raised(e) == [exc |-> e, url |-> <<>>]

\* base_parts: bpath.split('/') without its last item unless that is ''
base_parts(parts) ==
    IF parts[Len(parts)] # <<>> THEN SubSeq(parts, 1, Len(parts) - 1) ELSE parts

\* segments[1:-1] = filter(None, segments[1:-1])
filter_middle(segs) ==
    IF Len(segs) <= 2 THEN segs
    ELSE <<segs[1]>> \o nonempty(SubSeq(segs, 2, Len(segs) - 1)) \o <<segs[Len(segs)]>>

join_segments(bpath, path) ==
    IF startswith(path, <<"/">>) THEN split(path, "/")
    ELSE filter_middle(base_parts(split(bpath, "/")) \o split(path, "/"))

\* the loop over segments: '..' pops, '.' is skipped
RECURSIVE resolve(_, _)
resolve(segs, resolved) ==
    IF Len(segs) = 0 THEN resolved
    ELSE IF Head(segs) = <<".",".">>
         THEN resolve(Tail(segs),
                      IF Len(resolved) = 0 THEN resolved
                      ELSE SubSeq(resolved, 1, Len(resolved) - 1))
    ELSE IF Head(segs) = <<".">> THEN resolve(Tail(segs), resolved)
    ELSE resolve(Tail(segs), Append(resolved, Head(segs)))

resolved_path(segs) ==
    resolve(segs, <<>>)
    \o (IF segs[Len(segs)] \in {<<".">>, <<".",".">>} THEN << <<>> >> ELSE <<>>)

\* urljoin once both are parsed: b = urlparse(base, ''), p = urlparse(url, b.scheme)
urljoin_parsed(url, b, p) ==
    IF b.exc # "none" THEN Raised(b.exc)
    ELSE IF p.exc # "none" THEN Raised(p.exc)
    ELSE IF p.scheme # b.scheme \/ p.scheme \notin uses_relative THEN Ok(url)
    ELSE IF p.scheme \in uses_netloc /\ p.netloc # <<>> THEN Ok(urlunparse(p))
    ELSE IF p.path = <<>> /\ p.params = <<>>
    THEN Ok(urlunparse([p EXCEPT
                !.netloc = IF p.scheme \in uses_netloc THEN b.netloc ELSE @,
                !.path = b.path,
                !.params = b.params,
                !.query = IF p.query = <<>> THEN b.query ELSE @]))
    ELSE Ok(urlunparse([p EXCEPT
                !.netloc = IF p.scheme \in uses_netloc THEN b.netloc ELSE @,
                !.path = IF join(resolved_path(join_segments(b.path, p.path)), "/") = <<>>
                         THEN <<"/">>
                         ELSE join(resolved_path(join_segments(b.path, p.path)), "/")]))

urljoin_base(url, b) == urljoin_parsed(url, b, urlparse(url, b.scheme))

\* urljoin(base, url); exc is "ValueError" when a parse raises
urljoin(base, url) ==
    IF base = <<>> THEN Ok(url)
    ELSE IF url = <<>> THEN Ok(base)
    ELSE urljoin_base(url, urlparse(base, <<>>))

-----------------------------------------------------------------------------
(* Tokens and word counts                                                  *)

\* re.findall(r'[a-zA-Z]+', text): the maximal runs of letters, in order;
\* starts are the places where a run begins
run_starts(s) == {i \in 1..Len(s) : isalpha(s[i]) /\ (i = 1 \/ ~isalpha(s[i - 1]))}
run_end(s, a) == Min({i \in a..Len(s) : ~isalpha(s[i])} \cup {Len(s) + 1}) - 1

runs_of(s, starts) ==
    AsSeq([k \in 1..Cardinality(starts) |->
              SubSeq(s, nth(starts, k), run_end(s, nth(starts, k)))],
          Cardinality(starts))

findall_alpha(s) == runs_of(s, run_starts(s))

\* [w.lower() for w in re.findall(r'[a-zA-Z]+', text)]
lower_all(words) == AsSeq([i \in 1..Len(words) |-> lower(words[i])], Len(words))
words_of(text) == lower_all(findall_alpha(text))

STOP_WORDS ==
  {
    <<"a">>, <<"a","b","o","u","t">>, <<"a","b","o","v","e">>, <<"a","f","t","e","r">>,
    <<"a","g","a","i","n">>, <<"a","g","a","i","n","s","t">>, <<"a","l","l">>, <<"a","m">>,
    <<"a","n">>, <<"a","n","d">>, <<"a","n","y">>, <<"a","r","e">>, <<"a","r","e","n","'","t">>,
    <<"a","s">>, <<"a","t">>, <<"b","e">>, <<"b","e","c","a","u","s","e">>, <<"b","e","e","n">>,
    <<"b","e","f","o","r","e">>, <<"b","e","i","n","g">>, <<"b","e","l","o","w">>,
    <<"b","e","t","w","e","e","n">>, <<"b","o","t","h">>, <<"b","u","t">>, <<"b","y">>,
    <<"c","a","n","'","t">>, <<"c","a","n","n","o","t">>, <<"c","o","u","l","d">>,
    <<"c","o","u","l","d","n","'","t">>, <<"d","i","d">>, <<"d","i","d","n","'","t">>, <<"d","o">>,
    <<"d","o","e","s">>, <<"d","o","e","s","n","'","t">>, <<"d","o","i","n","g">>,
    <<"d","o","n","'","t">>, <<"d","o","w","n">>, <<"d","u","r","i","n","g">>, <<"e","a","c","h">>,
    <<"f","e","w">>, <<"f","o","r">>, <<"f","r","o","m">>, <<"f","u","r","t","h","e","r">>,
    <<"h","a","d">>, <<"h","a","d","n","'","t">>, <<"h","a","s">>, <<"h","a","s","n","'","t">>,
    <<"h","a","v","e">>, <<"h","a","v","e","n","'","t">>, <<"h","a","v","i","n","g">>, <<"h","e">>,
    <<"h","e","'","d">>, <<"h","e","'","l","l">>, <<"h","e","'","s">>, <<"h","e","r">>,
    <<"h","e","r","e">>, <<"h","e","r","e","'","s">>, <<"h","e","r","s">>,
    <<"h","e","r","s","e","l","f">>, <<"h","i","m">>, <<"h","i","m","s","e","l","f">>,
    <<"h","i","s">>, <<"h","o","w">>, <<"h","o","w","'","s">>, <<"i">>, <<"i","'","d">>,
    <<"i","'","l","l">>, <<"i","'","m">>, <<"i","'","v","e">>, <<"i","f">>, <<"i","n">>,
    <<"i","n","t","o">>, <<"i","s">>, <<"i","s","n","'","t">>, <<"i","t">>, <<"i","t","'","s">>,
    <<"i","t","s">>, <<"i","t","s","e","l","f">>, <<"l","e","t","'","s">>, <<"m","e">>,
    <<"m","o","r","e">>, <<"m","o","s","t">>, <<"m","u","s","t","n","'","t">>, <<"m","y">>,
    <<"m","y","s","e","l","f">>, <<"n","o">>, <<"n","o","r">>, <<"n","o","t">>, <<"o","f">>,
    <<"o","f","f">>, <<"o","n">>, <<"o","n","c","e">>, <<"o","n","l","y">>, <<"o","r">>,
    <<"o","t","h","e","r">>, <<"o","u","g","h","t">>, <<"o","u","r">>, <<"o","u","r","s">>,
    <<"o","u","r","s","e","l","v","e","s">>, <<"o","u","t">>, <<"o","v","e","r">>, <<"o","w","n">>,
    <<"s","a","m","e">>, <<"s","h","a","n","'","t">>, <<"s","h","e">>, <<"s","h","e","'","d">>,
    <<"s","h","e","'","l","l">>, <<"s","h","e","'","s">>, <<"s","h","o","u","l","d">>,
    <<"s","h","o","u","l","d","n","'","t">>, <<"s","o">>, <<"s","o","m","e">>, <<"s","u","c","h">>,
    <<"t","h","a","n">>, <<"t","h","a","t">>, <<"t","h","a","t","'","s">>, <<"t","h","e">>,
    <<"t","h","e","i","r">>, <<"t","h","e","i","r","s">>, <<"t","h","e","m">>,
    <<"t","h","e","m","s","e","l","v","e","s">>, <<"t","h","e","n">>, <<"t","h","e","r","e">>,
    <<"t","h","e","r","e","'","s">>, <<"t","h","e","s","e">>, <<"t","h","e","y">>,
    <<"t","h","e","y","'","d">>, <<"t","h","e","y","'","l","l">>, <<"t","h","e","y","'","r","e">>,
    <<"t","h","e","y","'","v","e">>, <<"t","h","i","s">>, <<"t","h","o","s","e">>,
    <<"t","h","r","o","u","g","h">>, <<"t","o">>, <<"t","o","o">>, <<"u","n","d","e","r">>,
    <<"u","n","t","i","l">>, <<"u","p">>, <<"v","e","r","y">>, <<"w","a","s">>,
    <<"w","a","s","n","'","t">>, <<"w","e">>, <<"w","e","'","d">>, <<"w","e","'","l","l">>,
    <<"w","e","'","r","e">>, <<"w","e","'","v","e">>, <<"w","e","r","e">>,
    <<"w","e","r","e","n","'","t">>, <<"w","h","a","t">>, <<"w","h","a","t","'","s">>,
    <<"w","h","e","n">>, <<"w","h","e","n","'","s">>, <<"w","h","e","r","e">>,
    <<"w","h","e","r","e","'","s">>, <<"w","h","i","c","h">>, <<"w","h","i","l","e">>,
    <<"w","h","o">>, <<"w","h","o","'","s">>, <<"w","h","o","m">>, <<"w","h","y">>,
    <<"w","h","y","'","s">>, <<"w","i","t","h">>, <<"w","o","n","'","t">>, <<"w","o","u","l","d">>,
    <<"w","o","u","l","d","n","'","t">>, <<"y","o","u">>, <<"y","o","u","'","d">>,
    <<"y","o","u","'","l","l">>, <<"y","o","u","'","r","e">>, <<"y","o","u","'","v","e">>,
    <<"y","o","u","r">>, <<"y","o","u","r","s">>, <<"y","o","u","r","s","e","l","f">>,
    <<"y","o","u","r","s","e","l","v","e","s">>
  }

\* line 215
counted(w) == w \notin STOP_WORDS /\ Len(w) > 1

\* word_counts is a dict in insertion order: a sequence of [word, count].
\* The loop of lines 214-216: the words already in word_counts gain their
\* occurrences, and the new ones are added in the order they first occur;
\* first_counted are the places where a new counted word first occurs.
first_counted(counts, words) ==
    {i \in 1..Len(words) :
        /\ counted(words[i])
        /\ \A k \in 1..Len(counts) : counts[k].word # words[i]
        /\ \A j \in 1..(i - 1) : words[j] # words[i]}

new_words(words, firsts) ==
    AsSeq([k \in 1..Cardinality(firsts) |->
              [word |-> words[nth(firsts, k)],
               count |-> count(words, words[nth(firsts, k)])]],
          Cardinality(firsts))

old_words(counts, words) ==
    AsSeq([k \in 1..Len(counts) |->
              [counts[k] EXCEPT !.count = @ + count(words, counts[k].word)]],
          Len(counts))

count_words(counts, words) ==
    old_words(counts, words) \o new_words(words, first_counted(counts, words))

\* subdomain_pages[netloc].add(url)
add_page(pages, netloc, url) ==
    [d \in DOMAIN pages \cup {netloc} |->
        IF d = netloc
        THEN (IF d \in DOMAIN pages THEN pages[d] ELSE {}) \cup {url}
        ELSE pages[d]]

-----------------------------------------------------------------------------
(* save_stats                                                              *)

\* sorted(word_counts.items(), key=lambda x: -x[1]): a stable sort, so words
\* of equal count stay in insertion order
RECURSIVE insert_sorted(_, _)
insert_sorted(sorted, item) ==
    IF Len(sorted) = 0 THEN <<item>>
    ELSE IF Head(sorted).count >= item.count
         THEN <<Head(sorted)>> \o insert_sorted(Tail(sorted), item)
         ELSE <<item>> \o sorted

RECURSIVE sort_by_count(_, _)
sort_by_count(items, sorted) ==
    IF Len(items) = 0 THEN sorted
    ELSE sort_by_count(Tail(items), insert_sorted(sorted, Head(items)))

TOP_WORDS == 50
SAMPLE_URLS == 5

\* The stats dict of lines 108-119.  sample_urls is list(urls)[:5], in the
\* iteration order of a set, which the language leaves open: the model keeps
\* how many URLs the sample has.
stats_of(st) ==
    [unique_pages_count |-> Cardinality(st.unique_pages),
     longest_page |-> [url |-> st.longest_page[1], word_count |-> st.longest_page[2]],
     top_50_words |-> SubSeq(sort_by_count(st.word_counts, <<>>), 1,
                             Min({Len(st.word_counts), TOP_WORDS})),
     subdomains |-> [d \in DOMAIN st.subdomain_pages |->
                        [count |-> Cardinality(st.subdomain_pages[d]),
                         sample_urls |-> Min({Cardinality(st.subdomain_pages[d]),
                                              SAMPLE_URLS})]]]

\* save_stats(): the file is rewritten with the stats; when the write fails
\* (disk_ok false) the exception is printed and swallowed (lines 122-123)
save_stats(st, disk_ok) ==
    IF disk_ok THEN [st EXCEPT !.stats_file = <<stats_of(st)>>] ELSE st

-----------------------------------------------------------------------------
(* extract_next_links                                                      *)

text_html == <<"t","e","x","t","/","h","t","m","l">>

\* line 238: not href or href.startswith(('javascript:', 'mailto:', 'tel:', '#'))
skipped(href) ==
    \/ href = <<>>
    \/ \E p \in {<<"j","a","v","a","s","c","r","i","p","t",":">>,
                 <<"m","a","i","l","t","o",":">>, <<"t","e","l",":">>, <<"#">>} :
          startswith(href, p)

\* lines 245-251 as they would be with one trailing slash removed
link_defragged_one_slash(d) ==
    IF d.exc # "none" THEN [exc |-> d.exc, line |-> 245, url |-> <<>>]
    ELSE [exc |-> "none", line |-> 251,
          url |-> IF endswith(d.url, <<"/">>) THEN SubSeq(d.url, 1, Len(d.url) - 1)
                  ELSE d.url]

\* lines 242-251 for one href: the link, or the exception and its line;
\* lines 248-249 strip every trailing slash
link_defragged(d) ==
    IF d.exc # "none" THEN [exc |-> d.exc, line |-> 245, url |-> <<>>]
    ELSE [exc |-> "none", line |-> 251,
          url |-> IF endswith(d.url, <<"/">>) THEN rstrip(d.url, "/") ELSE d.url]

link_joined(j) ==
    IF j.exc # "none" THEN [exc |-> j.exc, line |-> 242, url |-> <<>>]
    ELSE link_defragged(urldefrag(j.url))

link_of(url, href) == link_joined(urljoin(url, href))

\* what the body of the loop of lines 234-251 does with each href: skip it
\* (line 239), append a link (line 251) or raise
bodies(url, hrefs) ==
    AsSeq([i \in 1..Len(hrefs) |->
              IF skipped(hrefs[i]) THEN [exc |-> "none", line |-> 239, url |-> <<>>]
              ELSE link_of(url, hrefs[i])],
          Len(hrefs))

links_of(done, kept) ==
    AsSeq([k \in 1..Cardinality(kept) |-> done[nth(kept, k)].url], Cardinality(kept))

loop_result(done, stop) ==
    [exc |-> IF stop <= Len(done) THEN done[stop].exc ELSE "none",
     line |-> IF stop <= Len(done) THEN done[stop].line ELSE 253,
     links |-> links_of(done, {i \in 1..(stop - 1) : done[i].line = 251})]

\* the loop stops at the first href that raises
loop_over(done) ==
    loop_result(done, Min({i \in 1..Len(done) : done[i].exc # "none"} \cup {Len(done) + 1}))

\* the loop of lines 234-251: the links appended until an href raises, and
\* the exception and its line if one does
link_loop(url, hrefs) == loop_over(bodies(url, hrefs))

\* what a call hands back: the value returned ("raised" when it raises), the
\* exception, the line left by, the globals afterwards and whether
\* save_stats was called
Outcome(value, e, line, st, saved) ==
    [ret |-> value, exc |-> e, line |-> line, st |-> st, saved |-> saved]

\* lines 229-253
extract_links(loop, st, saved) ==
    IF loop.exc # "none" THEN Outcome("raised", loop.exc, loop.line, st, saved)
    ELSE Outcome(loop.links, "none", 253, st, saved)

\* lines 225-227
maybe_save(loop, st, disk_ok) ==
    IF Cardinality(st.unique_pages) % SAVE_EVERY = 0
    THEN extract_links(loop, save_stats(st, disk_ok), TRUE)
    ELSE extract_links(loop, st, FALSE)

\* lines 219-222, on parsed = urlparse(defragged_url)
record_subdomain(loop, st, defragged_url, parsed, disk_ok) ==
    IF parsed.exc # "none" THEN Outcome("raised", parsed.exc, 219, st, FALSE)
    ELSE maybe_save(loop,
            [st EXCEPT !.subdomain_pages = add_page(@, lower(parsed.netloc), defragged_url)],
            disk_ok)

\* lines 206-216, on d = urldefrag(url)
collect_stats(loop, st, words, d, disk_ok) ==
    IF d.exc # "none" THEN Outcome("raised", d.exc, 206, st, FALSE)
    ELSE record_subdomain(loop,
            [st EXCEPT !.unique_pages = @ \cup {d.url},
                       !.longest_page = IF Len(words) > @[2] THEN <<d.url, Len(words)>> ELSE @,
                       !.word_counts = count_words(@, words)],
            d.url, urlparse(d.url, <<>>), disk_ok)

\* lines 198-227 as they would be without the test of line 198
after_tokenize_always(url, loop, st, words, disk_ok) ==
    collect_stats(loop, st, words, urldefrag(url), disk_ok)

\* lines 198-227
after_tokenize(url, loop, st, words, disk_ok) ==
    IF Len(words) < MIN_WORDS THEN extract_links(loop, st, FALSE)
    ELSE collect_stats(loop, st, words, urldefrag(url), disk_ok)

\* line 164 as it would be without the test that the header is there
not_html_strict(resp) == ~contains(resp.content_type, text_html)

\* line 164
not_html(resp) == resp.content_type # <<>> /\ ~contains(resp.content_type, text_html)

\* extract_next_links(url, resp) run against the globals st, words being
\* the tokens of line 195 and loop what the loop of lines 234-251 comes to.  The response
\* is given by what the fetch and the HTML parser make of it: status, raw
\* (raw_response is there), content_len, content_type ('' when the header is
\* missing), lxml_ok and html_parser_ok (the parser does not raise), text
\* (get_text of the document without script, style and noscript) and hrefs
\* (the href of every anchor that has one, stripped, in document order).
extract_on(url, resp, words, loop, st, disk_ok) ==
    IF resp.status # 200 THEN Outcome(<<>>, "none", 156, st, FALSE)
    ELSE IF ~resp.raw \/ resp.content_len = 0 THEN Outcome(<<>>, "none", 160, st, FALSE)
    ELSE IF not_html(resp) THEN Outcome(<<>>, "none", 165, st, FALSE)
    ELSE IF resp.content_len > MAX_CONTENT_BYTES THEN Outcome(<<>>, "none", 169, st, FALSE)
    ELSE IF ~resp.lxml_ok
    THEN IF ~resp.html_parser_ok THEN Outcome(<<>>, "none", 180, st, FALSE)
         ELSE Outcome("raised", "Exception", 188, st, FALSE)
    ELSE after_tokenize(url, loop, st, words, disk_ok)

extract_next_links(url, resp, st, disk_ok) ==
    extract_on(url, resp, words_of(resp.text), link_loop(url, resp.hrefs), st, disk_ok)

-----------------------------------------------------------------------------
(* The pages extract_next_links is called with                             *)

\* http://cs.uci.edu/p,
\* http://cs.uci.edu/p#top,
\* http://cs.uci.edu/p#end,
\* HTTP://cs.uci.edu/q,
\* HTTP://cs.uci.edu/q#top,
\* https://WWW.Stat.uci.edu/d/?x=1
PAGE_URLS ==
    <<<<"h","t","t","p",":","/","/","c","s",".","u","c","i",".","e","d","u","/","p">>,
      <<"h","t","t","p",":","/","/","c","s",".","u","c","i",".","e","d","u","/","p","#","t","o","p">>,
      <<"h","t","t","p",":","/","/","c","s",".","u","c","i",".","e","d","u","/","p","#","e","n","d">>,
      <<"H","T","T","P",":","/","/","c","s",".","u","c","i",".","e","d","u","/","q">>,
      <<"H","T","T","P",":","/","/","c","s",".","u","c","i",".","e","d","u","/","q","#","t","o","p">>,
      <<"h","t","t","p","s",":","/","/","W","W","W",".","S","t","a","t",".","u","c","i",".","e","d","u","/","d","/","?","x","=","1">>>>

\* the n-th page of a numbered family: http://cs.uci.edu/n/<n>
FamilyPage(n) == HTTP_CS \o <<"/","n","/">> \o str(n)

\* texts of 25, 24 and 30 alphabetic tokens; "the" and "it" are stop words and
\* "x" has one letter
TEXTS ==
    [rich |-> repeat(<<"W","e","b","-","c","r","a","w","l","e","r"," ">>, 10) \o <<"t","h","e"," ","x"," ","I","T"," ","9"," ","o","k"," ","o","k">>,
     low |-> repeat(<<"W","e","b","-","c","r","a","w","l","e","r"," ">>, 10) \o <<"t","h","e"," ","x"," ","I","T"," ","9"," ","o","k">>,
     long |-> repeat(<<"s","t","a","t","s"," ">>, 29) \o <<"W","e","b">>]

HREFS ==
    <<<<"/","a","/","1">>,
      <<"b","/","#","f","r","a","g">>,
      <<"#","t","o","p">>,
      <<"m","a","i","l","t","o",":","x","@","c","s",".","u","c","i",".","e","d","u">>,
      <<>>,
      <<"j","a","v","a","s","c","r","i","p","t",":","v","o","i","d","(","0",")">>,
      <<"t","e","l",":","1">>,
      <<"h","t","t","p",":","/","/","c","s",".","u","c","i",".","e","d","u","/","c","/","/","/">>,
      <<".",".","/","a",".","p","d","f">>,
      <<"?">>>>

\* the second href does not parse: urlsplit raises ValueError on it
HREFS_MALFORMED == <<<<"/","o","k">>, <<"h","t","t","p",":","/","/","[","c","s",".","u","c","i",".","e","d","u","/","a">>>>

\* a 200 response with an HTML body of 25 tokens and the anchors HREFS, sent
\* as text/html; charset=utf-8
R_html ==
    [status |-> 200, raw |-> TRUE, content_len |-> 2048,
     content_type |-> text_html \o <<";"," ","c","h","a","r","s","e","t","=","u","t","f","-","8">>,
     lxml_ok |-> TRUE, html_parser_ok |-> TRUE, text |-> TEXTS.rich, hrefs |-> HREFS]

R_404 == [R_html EXCEPT !.status = 404]
R_low == [R_html EXCEPT !.text = TEXTS.low]
R_low_plain == [R_low EXCEPT !.hrefs = <<>>]
R_plain == [R_html EXCEPT !.hrefs = <<>>]
R_long == [R_html EXCEPT !.text = TEXTS.long, !.hrefs = <<>>]
R_malformed_href == [R_html EXCEPT !.hrefs = HREFS_MALFORMED]
R_low_malformed_href == [R_low EXCEPT !.hrefs = HREFS_MALFORMED]

\* the responses extract_next_links is called with: those above, and R_html
\* without raw response, with an empty body, as application/pdf, as
\* Text/HTML, of 10 MiB and one byte, of 10 MiB, without Content-Type, with a
\* body lxml raises on, and with a body both parsers raise on
RESPONSES ==
    <<R_html, R_404,
      [R_html EXCEPT !.raw = FALSE],
      [R_html EXCEPT !.content_len = 0, !.text = <<>>, !.hrefs = <<>>],
      [R_html EXCEPT !.content_type = <<"a","p","p","l","i","c","a","t","i","o","n","/","p","d","f">>],
      [R_html EXCEPT !.content_type = <<"T","e","x","t","/","H","T","M","L">>],
      [R_html EXCEPT !.content_len = MAX_CONTENT_BYTES + 1],
      [R_html EXCEPT !.content_len = MAX_CONTENT_BYTES],
      [R_html EXCEPT !.content_type = <<>>],
      R_low, R_low_plain, R_long,
      [R_html EXCEPT !.lxml_ok = FALSE],
      [R_html EXCEPT !.lxml_ok = FALSE, !.html_parser_ok = FALSE],
      R_malformed_href, R_low_malformed_href, R_plain>>

\* where a response is in RESPONSES
index_of(resp) == CHOOSE r \in 1..Len(RESPONSES) : RESPONSES[r] = resp

\* the tokens of every response above, computed once
ResponseWords ==
    AsSeq([i \in 1..Len(RESPONSES) |-> words_of(RESPONSES[i].text)], Len(RESPONSES))

\* the link loop of every page of PAGE_URLS with every response, computed once
PageLoops ==
    AsSeq([u \in 1..Len(PAGE_URLS) |->
              AsSeq([r \in 1..Len(RESPONSES) |-> link_loop(PAGE_URLS[u], RESPONSES[r].hrefs)],
                    Len(RESPONSES))],
          Len(PAGE_URLS))

-----------------------------------------------------------------------------
(* Calls of extract_next_links                                             *)

Stats ==
    [unique_pages |-> unique_pages, word_counts |-> word_counts,
     longest_page |-> longest_page, subdomain_pages |-> subdomain_pages,
     stats_file |-> stats_file]

\* the call got as far as unique_pages.add (line 207)
COUNTED_LINES == {219, 242, 245, 253}
counted_page(resp, words, line) ==
    line \in COUNTED_LINES /\ resp.lxml_ok /\ Len(words) >= MIN_WORDS

\* extract_next_links(url, RESPONSES[r]), loop being what the link loop comes
\* to and h the bookkeeping of the action; src tells where the page is from:
\* <<"page", u>> or <<"family", n>>
ExtractCall(url, src, r, loop, disk_ok, h) ==
    \E o \in {extract_on(url, RESPONSES[r], ResponseWords[r], loop, Stats, disk_ok)} :
    /\ unique_pages' = o.st.unique_pages
    /\ word_counts' = o.st.word_counts
    /\ longest_page' = o.st.longest_page
    /\ subdomain_pages' = o.st.subdomain_pages
    /\ stats_file' = o.st.stats_file
    /\ ret' = o.ret
    /\ exc' = o.exc
    /\ ret_line' = o.line
    /\ call' = [fn |-> "extract_next_links", url |-> url, src |-> src, resp |-> r]
    /\ hist' = [h EXCEPT !.before = Stats,
                         !.saved = o.saved,
                         !.seen_before = h.seen,
                         !.seen = IF counted_page(RESPONSES[r], ResponseWords[r], o.line)
                                  THEN @ \cup {url} ELSE @]
    /\ UNCHANGED <<path_pattern_counts, workers>>

\* calls of extract_next_links in SpecExtract
MaxExtractCalls == 2

\* extract_next_links on one of PAGE_URLS with one of RESPONSES
ExtractPage ==
    /\ hist.extracts < MaxExtractCalls
    /\ \E u \in 1..Len(PAGE_URLS), r \in 1..Len(RESPONSES) :
          ExtractCall(PAGE_URLS[u], <<"page", u>>, r, PageLoops[u][r], TRUE,
                      [hist EXCEPT !.extracts = @ + 1])

NextExtract == ExtractPage

SpecExtract == Init /\ [][NextExtract]_vars

\* pages of the family fetched in SpecCheckpoint
MaxPages == 101
\* pages fetched again in SpecCheckpoint
MaxRevisits == 1

\* extract_next_links on the next page of the family, a page of 25 tokens
\* without anchors
ExtractFamily ==
    /\ hist.pages < MaxPages
    /\ \E disk_ok \in BOOLEAN :
          ExtractCall(FamilyPage(hist.pages + 1), <<"family", hist.pages + 1>>, index_of(R_plain),
                      link_loop(FamilyPage(hist.pages + 1), R_plain.hrefs),
                      disk_ok, [hist EXCEPT !.pages = @ + 1])

\* the responses a page of the family gets when it is fetched again
REVISIT_RESPONSES ==
    {index_of(R_plain), index_of(R_low_plain), index_of(R_long), index_of(R_404)}

\* extract_next_links on the first or the last page fetched so far
Revisit ==
    /\ hist.pages > 0
    /\ hist.revisits < MaxRevisits
    /\ \E n \in {1, hist.pages}, r \in REVISIT_RESPONSES, disk_ok \in BOOLEAN :
          ExtractCall(FamilyPage(n), <<"family", n>>, r,
                      link_loop(FamilyPage(n), RESPONSES[r].hrefs),
                      disk_ok, [hist EXCEPT !.revisits = @ + 1])

NextCheckpoint == ExtractFamily \/ Revisit

SpecCheckpoint == Init /\ [][NextCheckpoint]_vars

-----------------------------------------------------------------------------
(* scraper                                                                 *)

\* url_checks of every link of a list
links_checks(links) == AsSeq([i \in 1..Len(links) |-> url_checks(links[i])], Len(links))

\* line 141 for one link, r being what is_valid(link) came to: the link is
\* kept when is_valid returns True; an exception of is_valid ends the loop
keep_if_valid(f, link, r) ==
    IF r.exc # "none"
    THEN [f EXCEPT !.exc = r.exc, !.line = r.line, !.counts = r.counts]
    ELSE [f EXCEPT !.counts = r.counts,
                   !.valid = IF r.ret THEN Append(@, link) ELSE @]

filter_body(f, link, c) ==
    IF f.exc # "none" THEN f ELSE keep_if_valid(f, link, is_valid_on(c, f.counts))

\* [link for link in links if is_valid(link)] over the first n links, checks
\* being url_checks of each link
RECURSIVE filter_first(_, _, _, _)
filter_first(links, checks, n, counts) ==
    IF n = 0 THEN [exc |-> "none", line |-> 142, valid |-> <<>>, counts |-> counts]
    ELSE filter_body(filter_first(links, checks, n - 1, counts), links[n], checks[n])

\* what scraper hands back: as Outcome, with path_pattern_counts afterwards
scraper_result(o, f) ==
    [ret |-> IF f.exc = "none" THEN f.valid ELSE "raised", exc |-> f.exc,
     line |-> f.line, st |-> o.st, saved |-> o.saved, counts |-> f.counts]

\* lines 140-142, o being what extract_next_links came to
scraper_after(o, checks, counts) ==
    IF o.exc # "none"
    THEN [ret |-> "raised", exc |-> o.exc, line |-> o.line, st |-> o.st,
          saved |-> o.saved, counts |-> counts]
    ELSE scraper_result(o, filter_first(o.ret, checks, Len(o.ret), counts))

scraper_of(o, counts) ==
    scraper_after(o, IF o.exc = "none" THEN links_checks(o.ret) ELSE <<>>, counts)

\* scraper(url, resp) run against the globals st and path_pattern_counts
scraper(url, resp, st, counts, disk_ok) ==
    scraper_of(extract_next_links(url, resp, st, disk_ok), counts)

\* the responses scraper is called with
SCRAPED_RESPONSES ==
    {index_of(R_html), index_of(R_404), index_of(R_low), index_of(R_malformed_href),
     index_of(R_low_malformed_href)}

\* url_checks of the links of every page with every response of
\* SCRAPED_RESPONSES, computed once
PageChecks ==
    AsSeq([u \in 1..Len(PAGE_URLS) |->
              AsSeq([r \in 1..Len(RESPONSES) |->
                        IF r \in SCRAPED_RESPONSES
                        THEN links_checks(PageLoops[u][r].links) ELSE <<>>],
                    Len(RESPONSES))],
          Len(PAGE_URLS))

\* scraper(PAGE_URLS[u], RESPONSES[r]), h being the bookkeeping of the action
ScraperCall(u, r, h) ==
    \E s \in {scraper_after(extract_on(PAGE_URLS[u], RESPONSES[r], ResponseWords[r],
                                       PageLoops[u][r], Stats, TRUE),
                            PageChecks[u][r], path_pattern_counts)} :
    /\ unique_pages' = s.st.unique_pages
    /\ word_counts' = s.st.word_counts
    /\ longest_page' = s.st.longest_page
    /\ subdomain_pages' = s.st.subdomain_pages
    /\ stats_file' = s.st.stats_file
    /\ path_pattern_counts' = s.counts
    /\ ret' = s.ret
    /\ exc' = s.exc
    /\ ret_line' = s.line
    /\ call' = [fn |-> "scraper", url |-> PAGE_URLS[u], src |-> <<"page", u>>, resp |-> r]
    /\ hist' = [h EXCEPT !.before = Stats, !.saved = s.saved]
    /\ UNCHANGED workers

\* calls of scraper in SpecScraper
MaxScrapes == 2

\* scraper on one of PAGE_URLS with one of SCRAPED_RESPONSES
Scrape ==
    /\ hist.scrapes < MaxScrapes
    /\ \E u \in 1..Len(PAGE_URLS), r \in SCRAPED_RESPONSES :
          ScraperCall(u, r, [hist EXCEPT !.scrapes = @ + 1])

NextScraper == Scrape

SpecScraper == Init /\ [][NextScraper]_vars

-----------------------------------------------------------------------------
(* Concurrent calls of is_valid                                            *)

\* Worker threads call is_valid on the same globals.  Lines 266-354 of a
\* call work on the url alone.  Line 355 is a load of the counter (a
\* defaultdict: a missing key is created with 0), an addition and a store,
\* and line 356 loads the counter again; another thread can run between any
\* two of them, as nothing locks the counter.

\* where a thread's url is kept, as call.src: two URLs of the family, U_ftp,
\* U_sub and U_long
other_index(url) == CHOOSE i \in 1..Len(VALIDATION_URLS) : VALIDATION_URLS[i] = url

WORKER_URLS ==
    {<<"family", 1>>, <<"family", 2>>, <<"other", other_index(U_ftp)>>,
     <<"other", other_index(U_sub)>>, <<"other", other_index(U_long)>>}

checks_at(src) ==
    IF src[1] = "family" THEN FamilyChecks[src[2]] ELSE ValidationChecks[src[2]]

\* dict[k] = v
Store(counts, k, v) == [x \in DOMAIN counts \cup {k} |-> IF x = k THEN v ELSE counts[x]]

\* is_valid(url) up to line 354: a check before the frequency check returns
\* False, or the call goes on to line 355
Enter(w, src, c) ==
    /\ workers[w].pc = "idle"
    /\ workers' = [workers EXCEPT ![w] =
            IF c.pre # 0
            THEN [@ EXCEPT !.pc = "done", !.src = src, !.ret = FALSE, !.line = c.pre]
            ELSE [@ EXCEPT !.pc = "load", !.src = src]]
    /\ UNCHANGED <<path_pattern_counts, unique_pages, word_counts, longest_page,
                   subdomain_pages, stats_file, call, ret, exc,
                   ret_line, hist>>

\* line 355, the load: path_pattern_counts[pattern] is read
LoadCount(w, pattern) ==
    /\ workers[w].pc = "load"
    /\ workers' = [workers EXCEPT ![w].pc = "store",
                                  ![w].tmp = Count(path_pattern_counts, pattern)]
    /\ path_pattern_counts' = Store(path_pattern_counts, pattern,
                                    Count(path_pattern_counts, pattern))
    /\ UNCHANGED <<unique_pages, word_counts, longest_page,
                   subdomain_pages, stats_file, call, ret, exc, ret_line, hist>>

\* line 355, the store: what was read, plus one, is written
StoreCount(w, pattern) ==
    /\ workers[w].pc = "store"
    /\ workers' = [workers EXCEPT ![w].pc = "check"]
    /\ path_pattern_counts' = Store(path_pattern_counts, pattern, workers[w].tmp + 1)
    /\ UNCHANGED <<unique_pages, word_counts, longest_page,
                   subdomain_pages, stats_file, call, ret, exc, ret_line, hist>>

\* lines 356-365: the counter is read again and the call returns
CheckCount(w, c) ==
    /\ workers[w].pc = "check"
    /\ workers' = [workers EXCEPT ![w] =
            [@ EXCEPT !.pc = "done",
                      !.seen = path_pattern_counts[c.pattern],
                      !.ret = ~exceeds_ceiling(path_pattern_counts[c.pattern])
                              /\ ~c.too_long,
                      !.line = IF exceeds_ceiling(path_pattern_counts[c.pattern]) THEN 357
                               ELSE IF c.too_long THEN 363 ELSE 365]]
    /\ UNCHANGED <<path_pattern_counts, unique_pages, word_counts, longest_page,
                   subdomain_pages, stats_file, call, ret, exc,
                   ret_line, hist>>

WorkerStep(w) ==
    \/ \E src \in WORKER_URLS : Enter(w, src, checks_at(src))
    \/ LoadCount(w, checks_at(workers[w].src).pattern)
    \/ StoreCount(w, checks_at(workers[w].src).pattern)
    \/ CheckCount(w, checks_at(workers[w].src))

NextWorkers == \E w \in 1..NumWorkers : WorkerStep(w)

SpecWorkers == Init /\ [][NextWorkers]_vars

-----------------------------------------------------------------------------
(* Claims about is_valid, checked under SpecValid                          *)

\* url_checks(call.url) of the last is_valid call, its ParseResult and its
\* PathPattern
CallChecks ==
    IF call.src[1] = "family" THEN FamilyChecks[call.src[2]]
    ELSE ValidationChecks[call.src[2]]
CallParsed == CallChecks.parsed
CallPattern == CallChecks.pattern

\* C1, as stated: of the is_valid calls for URLs of one PathPattern, none
\* of the first 100 is rejected by the frequency check (line 357) and the
\* 101st is rejected by it.
C1_Original ==
    (call.fn = "is_valid" /\ CallParsed.exc = "none") =>
        /\ hist.calls[CallPattern] <= MAX_PATTERN_COUNT => ret_line # 357
        /\ hist.calls[CallPattern] = MAX_PATTERN_COUNT + 1 =>
              (exc = "none" /\ ret = FALSE /\ ret_line = 357)

\* C1, amended: of the is_valid calls for URLs of one PathPattern that pass
\* every check before the frequency check, none of the first 100 is rejected
\* by the frequency check, and the 101st and every later one is rejected
\* by it; a call rejected by an earlier check is not counted.
C1_Amended ==
    (call.fn = "is_valid" /\ CallParsed.exc = "none") =>
        IF ret_line \in REACHED_LINES
        THEN /\ hist.reached[CallPattern] <= MAX_PATTERN_COUNT => ret_line # 357
             /\ hist.reached[CallPattern] > MAX_PATTERN_COUNT =>
                   (exc = "none" /\ ret = FALSE /\ ret_line = 357)
        ELSE exc = "none" /\ ret = FALSE

\* C1 witness: the 101st call to reach the frequency check is rejected by
\* it, after calls of the same pattern that an earlier check rejected.
C1_Witness ==
    /\ call.fn = "is_valid" /\ CallParsed.exc = "none"
    /\ ret_line = 357 /\ ret = FALSE
    /\ hist.reached[CallPattern] = MAX_PATTERN_COUNT + 1
    /\ hist.calls[CallPattern] > hist.reached[CallPattern]

\* the host of a URL, as ParseResult.hostname gives it: the netloc without
\* userinfo and port, lower-cased
hostname(netloc) ==
    lower(partition(From(netloc, rfind(netloc, "@") + 1), ":").head)

\* the host of the claim: in the allow-list when it is one of the four
\* domains or a sub-host of one
HostInAllowList(host) ==
    \E d \in ALLOWED_DOMAINS :
        \/ host = d
        \/ /\ Len(host) > Len(d) + 1
           /\ SubSeq(host, Len(host) - Len(d) + 1, Len(host)) = d
           /\ host[Len(host) - Len(d)] = "."
        \/ /\ Len(host) = Len(d) + 1
           /\ SubSeq(host, 2, Len(host)) = d
           /\ host[1] = "."

\* C2: whatever the counters hold, is_valid returns False for a URL whose
\* scheme is not http or https, or whose host (lower-cased) is neither one
\* of the four domains nor a dot-suffix sub-host of one.
C2_OffDomainRejected ==
    (call.fn = "is_valid" /\ CallParsed.exc = "none"
        /\ (\/ CallParsed.scheme \notin {<<"h","t","t","p">>, <<"h","t","t","p","s">>}
            \/ ~HostInAllowList(hostname(CallParsed.netloc)))) =>
        (exc = "none" /\ ret = FALSE)

\* C3, as stated: the counter of a PathPattern is the number of is_valid
\* calls made with a URL of that pattern, whatever their outcome.
C3_Original ==
    \A p \in DOMAIN hist.calls : Count(path_pattern_counts, p) = hist.calls[p]

\* C3, amended: the counter of a PathPattern is the number of is_valid calls
\* with a URL of that pattern that passed the scheme, domain, extension,
\* trap-substring, depth, query and repeated-segment checks (whether then
\* accepted, rejected by the frequency check or by the length check); a call
\* that one of those checks rejects, or whose URL does not parse, leaves
\* every counter as it was and creates none.
C3_Amended ==
    /\ path_pattern_counts = hist.reached
    /\ \A p \in DOMAIN path_pattern_counts : p \in DOMAIN hist.calls

\* C3 witness: a pattern with three calls of which the counter shows two
C3_Witness ==
    \E p \in DOMAIN path_pattern_counts :
        path_pattern_counts[p] = 2 /\ hist.calls[p] = 3

\* some segment occurs 3 times or more among the non-empty segments of path
SomeSegmentThrice(path) ==
    \E i \in 1..Len(path_parts_of([path |-> path])) :
        count(path_parts_of([path |-> path]), path_parts_of([path |-> path])[i]) >= 3

\* C4: is_valid returns False for every URL with a path segment that occurs
\* 3 times or more, whatever the number of segments.
C4_RepeatedSegmentRejected ==
    (call.fn = "is_valid" /\ CallParsed.exc = "none"
        /\ SomeSegmentThrice(CallParsed.path)) =>
        (exc = "none" /\ ret = FALSE)

-----------------------------------------------------------------------------
(* Claims about extract_next_links, checked under SpecExtract and           *)
(* SpecCheckpoint                                                           *)

\* the response of the last extract_next_links call, its tokens and what the
\* link loop makes of its anchors
CallResp == RESPONSES[call.resp]
CallWords == ResponseWords[call.resp]
CallLoop ==
    IF call.src[1] = "page" THEN PageLoops[call.src[2]][call.resp]
    ELSE link_loop(call.url, CallResp.hrefs)

\* the response is one the claims call unusable: status not 200, raw
\* response or body absent or empty, a Content-Type that is there and does
\* not contain text/html, or a body larger than 10 MiB
Unusable(resp) ==
    \/ resp.status # 200
    \/ ~resp.raw
    \/ resp.content_len = 0
    \/ (Len(resp.content_type) > 0 /\ ~contains(resp.content_type, text_html))
    \/ resp.content_len > 10 * 1024 * 1024

\* the HTML of the response can be parsed
Parsed(resp) == resp.lxml_ok

\* C7: extract_next_links returns [] for every unusable response; a response
\* without Content-Type (or with an empty one) that is usable otherwise is
\* not answered with [] for that: it gets the links of its anchors.
C7_UnusableGivesEmpty ==
    call.fn = "extract_next_links" =>
        /\ Unusable(CallResp) => (exc = "none" /\ ret = <<>>)
        /\ (~Unusable(CallResp) /\ CallResp.content_type = <<>>
                /\ Parsed(CallResp) /\ CallLoop.exc = "none") =>
              (exc = "none" /\ ret = CallLoop.links /\ ret # <<>>)

\* C7 witness: a response too large by one byte gets [] after a page has
\* been counted
C7_Witness ==
    /\ call.fn = "extract_next_links"
    /\ CallResp.content_len = MAX_CONTENT_BYTES + 1
    /\ CallResp.status = 200 /\ CallResp.raw
    /\ exc = "none" /\ ret = <<>>
    /\ unique_pages # {}

\* C8: the four stats aggregates and the stats file are changed only by a
\* usable, parsed page of 25 tokens or more: a page of fewer tokens or an
\* unusable response leaves all of them as they were and save_stats is not
\* called; and a page of fewer than 25 tokens goes through the link loop as
\* any page does: its links are returned (an href that does not parse makes
\* the loop raise, for a page of any size).
C8_LowInfoLeavesStats ==
    call.fn = "extract_next_links" =>
        /\ (Unusable(CallResp) \/ ~Parsed(CallResp) \/ Len(CallWords) < 25) =>
              (Stats = hist.before /\ ~hist.saved)
        /\ (~Unusable(CallResp) /\ Parsed(CallResp) /\ Len(CallWords) < 25) =>
              /\ exc = CallLoop.exc
              /\ CallLoop.exc = "none" => ret = CallLoop.links

\* C8 witness: a page of 24 tokens fetched after a counted page: its links
\* are returned and the stats are those of before
C8_Witness ==
    /\ call.fn = "extract_next_links"
    /\ ~Unusable(CallResp) /\ Len(CallWords) = 24
    /\ exc = "none" /\ ret # <<>> /\ ret = CallLoop.links
    /\ unique_pages # {} /\ Stats = hist.before

\* url without its fragment, as written
without_fragment(url) == partition(url, "#").head

\* C9: a counted page whose URL is that of a page counted before, or differs
\* from it only in the fragment, does not make unique_pages larger.
C9_FragmentsCountOnce ==
    (call.fn = "extract_next_links"
        /\ \E seen \in hist.seen_before :
              without_fragment(seen) = without_fragment(call.url)) =>
        Cardinality(unique_pages) = Cardinality(hist.before.unique_pages)

\* C10: save_stats is called by the calls that make the size of
\* unique_pages a multiple of 100, and by no other call.
C10_SavedOnNewMultiple ==
    call.fn = "extract_next_links" =>
        (hist.saved <=>
            /\ Cardinality(unique_pages) % 100 = 0
            /\ Cardinality(unique_pages) # Cardinality(hist.before.unique_pages))
-----------------------------------------------------------------------------
(* Claims about exceptions and about concurrent calls                      *)

\* C5: no call of scraper lets an exception out: a page with an href that
\* does not parse gets the links of its other anchors.
C5_NoExceptionEscapes ==
    call.fn = "scraper" => exc = "none"

\* the threads whose call got to the frequency check with pattern p
ReachedCheck(p) ==
    {w \in 1..NumWorkers : /\ workers[w].line \in REACHED_LINES
                           /\ checks_at(workers[w].src).pattern = p}

\* C6: once every thread's call has returned, the counter of each pattern
\* is the number of calls that got to the frequency check with it, and no
\* two of those calls have read the same count at line 356.
C6_NoLostIncrement ==
    (\A w \in 1..NumWorkers : workers[w].pc = "done") =>
        \A p \in {checks_at(workers[w].src).pattern : w \in 1..NumWorkers} :
            /\ Count(path_pattern_counts, p) = Cardinality(ReachedCheck(p))
            /\ \A v, w \in ReachedCheck(p) : v # w => workers[v].seen # workers[w].seen
-----------------------------------------------------------------------------
(* Claims about the order of the checks and about the links returned       *)

\* the url kept at src passes Domain Admission and the Pattern Matcher and
\* fails a Structural Heuristic: path depth, repeated segment, query
\* breadth or URL length
FailsStructuralHeuristic(src) ==
    /\ checks_at(src).parsed.exc = "none"
    /\ checks_at(src).pre \in {0, 330, 338, 349}
    /\ (checks_at(src).pre # 0 \/ checks_at(src).too_long)

\* C11: the Dynamic Trap Tracker is the last check of is_valid: a call with
\* a URL that a structural heuristic rejects, a URL longer than 300
\* characters in particular, returns False and leaves path_pattern_counts
\* as it was.
C11_TrackerIsLast ==
    [][(call'.fn = "is_valid" /\ FailsStructuralHeuristic(call'.src)) =>
           (ret' = FALSE /\ path_pattern_counts' = path_pattern_counts)]_vars

\* the hrefs of the last call's response that the link loop keeps (line 238
\* skips the others), and what an href resolves to against the page URL once
\* the fragment is removed
CallKept == SelectSeq(CallResp.hrefs, LAMBDA h : ~skipped(h))
Resolved(url, href) == urldefrag(urljoin(url, href).url).url

\* link is u without its trailing slashes
WithoutTrailingSlashes(link, u) ==
    /\ Len(link) <= Len(u)
    /\ SubSeq(u, 1, Len(link)) = link
    /\ \A i \in (Len(link) + 1)..Len(u) : u[i] = "/"
    /\ (link = <<>> \/ link[Len(link)] # "/")

\* C12, as stated: the links returned are, in order, the kept hrefs resolved
\* against the page URL, without fragment, and with exactly one trailing
\* slash removed if there is one.
C12_Original ==
    (call.fn = "extract_next_links" /\ exc = "none" /\ ret_line = 253) =>
        /\ Len(ret) = Len(CallKept)
        /\ \A k \in 1..Len(ret) :
              ret[k] = IF endswith(Resolved(call.url, CallKept[k]), <<"/">>)
                       THEN SubSeq(Resolved(call.url, CallKept[k]), 1,
                                   Len(Resolved(call.url, CallKept[k])) - 1)
                       ELSE Resolved(call.url, CallKept[k])

\* C12, amended: the links returned are, in order, the kept hrefs resolved
\* against the page URL, without fragment, and with every trailing slash
\* removed: a URL that ends in several slashes loses them all, and a URL
\* that does not end in '/' is returned as it is.
C12_Amended ==
    (call.fn = "extract_next_links" /\ exc = "none" /\ ret_line = 253) =>
        /\ Len(ret) = Len(CallKept)
        /\ \A k \in 1..Len(ret) :
              /\ WithoutTrailingSlashes(ret[k], Resolved(call.url, CallKept[k]))
              /\ "#" \notin Range(ret[k])

\* C12 witness: a call returns the link of an href that resolves to a URL
\* ending in several slashes, and one of an href with a fragment
C12_Witness ==
    /\ call.fn = "extract_next_links" /\ exc = "none" /\ ret_line = 253
    /\ \E k \in 1..Len(ret) :
          /\ endswith(Resolved(call.url, CallKept[k]), <<"/","/">>)
          /\ Len(ret[k]) < Len(Resolved(call.url, CallKept[k])) - 1
    /\ \E k \in 1..Len(ret) : "#" \in Range(CallKept[k])
====
